---- MODULE Spec2Model ----
(***************************************************************************)
(* Model of the Perplexity MCP tools of chuk_mcp_perplexity/tools.py: five *)
(* async tool functions that validate the query, obtain a chuk_llm client, *)
(* await client.create_completion and wrap result["response"].             *)
(*                                                                         *)
(* Text is a sequence of string tokens; concatenation is \o.  A Python     *)
(* value is a record [kind, s]: its type name and its text content.        *)
(***************************************************************************)
EXTENDS Integers, Sequences, FiniteSets, TLC

VARIABLES pc, tool, raw, validated, messages, getClientCalls, createCalls,
          result, raised, outcome, elapsed, suspensions, running

vars == <<pc, tool, raw, validated, messages, getClientCalls, createCalls,
          result, raised, outcome, elapsed, suspensions, running>>

(* ------------------------------ bounds --------------------------------- *)

\* longest query / answer text, in tokens
MaxQueryLen == 1

\* seconds of waiting that are followed (just past the longest timeout, 90)
MaxElapsed == 91

(* ------------------------------ values --------------------------------- *)

Invocations == {"i1", "i2"}

Alphabet == {"a", "b"}

RECURSIVE SeqsUpTo(_)
SeqsUpTo(n) ==
    IF n = 0 THEN {<<>>}
    ELSE LET S == SeqsUpTo(n - 1)
         IN  S \cup {Append(s, c) : s \in {x \in S : Len(x) = n - 1}, c \in Alphabet}

Texts == SeqsUpTo(MaxQueryLen)

PyStr(s) == [kind |-> "str", s |-> s]
PyBytes(s) == [kind |-> "bytes", s |-> s]
PyInt123 == [kind |-> "int", s |-> <<"123">>]
PyNone == [kind |-> "NoneType", s |-> <<"None">>]

\* the raw arguments a caller may pass as `query`
PyValues == {PyStr(s) : s \in Texts} \cup {PyBytes(<<"a">>), PyInt123, PyNone}

\* f"{v}": the text an f-string puts in place of a value
Format(v) ==
    CASE v.kind = "str" -> v.s
      [] v.kind = "bytes" -> <<"b'">> \o v.s \o <<"'">>
      [] OTHER -> v.s

\* faulty variant of StrField: the field declared with min_length=1
StrFieldNonEmpty(v) ==
    IF v.kind \in {"str", "bytes"} /\ v.s # <<>>
    THEN [ok |-> TRUE, s |-> v.s]
    ELSE [ok |-> FALSE, s |-> <<>>]

\* pydantic's validation of a field declared `str = Field(...)`: the field is
\* required, a str is taken as it is (empty or not), bytes are decoded, any
\* other value is a validation error
StrField(v) ==
    IF v.kind \in {"str", "bytes"}
    THEN [ok |-> TRUE, s |-> v.s]
    ELSE [ok |-> FALSE, s |-> <<>>]

(* ------------------------------- tools --------------------------------- *)

Tools == {"perplexity_search", "perplexity_deep_research", "perplexity_quick_fact",
          "perplexity_search_with_citations", "perplexity_current_events"}

\* timeout= of the @mcp_tool registration
RegisteredTimeout(t) ==
    CASE t = "perplexity_search" -> 30
      [] t = "perplexity_deep_research" -> 90
      [] t = "perplexity_quick_fact" -> 15
      [] t = "perplexity_search_with_citations" -> 45
      [] t = "perplexity_current_events" -> 45

\* faulty variant of MessageSeconds: the search message kept an older budget
MessageSecondsStale(t) ==
    CASE t = "perplexity_search" -> 45
      [] t = "perplexity_deep_research" -> 90
      [] t = "perplexity_quick_fact" -> 15
      [] t = "perplexity_search_with_citations" -> 45
      [] t = "perplexity_current_events" -> 45

\* the number written in the tool's "timed out after N seconds" message
MessageSeconds(t) ==
    CASE t = "perplexity_search" -> 30
      [] t = "perplexity_deep_research" -> 90
      [] t = "perplexity_quick_fact" -> 15
      [] t = "perplexity_search_with_citations" -> 45
      [] t = "perplexity_current_events" -> 45

\* the subject of the tool's error messages
Label(t) ==
    CASE t = "perplexity_search" -> "Perplexity search"
      [] t = "perplexity_deep_research" -> "Perplexity deep research"
      [] t = "perplexity_quick_fact" -> "Perplexity quick fact"
      [] t = "perplexity_search_with_citations" -> "Perplexity search with citations"
      [] t = "perplexity_current_events" -> "Perplexity current events search"

\* the model name given to get_client("perplexity", model=...)
ModelName(t) ==
    CASE t = "perplexity_search" -> "sonar-pro"
      [] t = "perplexity_deep_research" -> "sonar-reasoning-pro"
      [] t = "perplexity_quick_fact" -> "sonar"
      [] t = "perplexity_search_with_citations" -> "sonar-pro"
      [] t = "perplexity_current_events" -> "sonar-pro"

\* the input class the tool constructs
InputModel(t) ==
    IF t = "perplexity_deep_research" THEN "PerplexityResearchInput"
    ELSE "PerplexitySearchInput"

\* the output class the tool constructs
ResultModel(t) ==
    IF t = "perplexity_deep_research" THEN "PerplexityResearchResult"
    ELSE "PerplexitySearchResult"

\* the value handed to the input class as query=...
ValidationArg(t, q) ==
    IF t = "perplexity_quick_fact"
    THEN PyStr(<<"Quick fact: ">> \o Format(q))
    ELSE q

\* faulty variant of Prompt: the fast search rewrites the query as well
PromptAllTemplated(t, vq) ==
    IF t = "perplexity_deep_research"
    THEN <<"Please provide a comprehensive, well-researched answer to: ">> \o vq
    ELSE <<"Please provide a comprehensive answer to: ">> \o vq

\* the content of the one message sent, from validated.query
Prompt(t, vq) ==
    CASE t = "perplexity_search" -> vq
      [] t = "perplexity_quick_fact" -> vq
      [] t = "perplexity_deep_research" ->
            <<"Please provide a comprehensive, well-researched answer to: ">> \o vq
            \o <<" Requirements: - Include multiple reliable sources with citations ...">>
      [] t = "perplexity_search_with_citations" ->
            <<"Please provide a comprehensive answer to: ">> \o vq
            \o <<" Please include: - Clear, specific citations for all facts ...">>
      [] t = "perplexity_current_events" ->
            <<"Please provide current news and recent developments about: ">> \o vq
            \o <<" Focus on: - Latest news from the past week ...">>

Messages(t, vq) == <<[role |-> "user", content |-> Prompt(t, vq)]>>

(* ------------------------- provider and errors ------------------------- *)

\* what create_completion may hand back: a dict holding "response", a dict
\* without it, or something that is no mapping at all (None)
RawResult(shape, has, val) == [shape |-> shape, has |-> has, val |-> val]

NoResult == RawResult("none", FALSE, PyNone)

RawResults ==
    {RawResult("dict", TRUE, v) : v \in PyValues}
    \cup {RawResult("dict", FALSE, PyNone), RawResult("NoneType", FALSE, PyNone)}

\* FakeClient.create_completion of the tests: echoes the last message
EchoResult(msgs) ==
    RawResult("dict", TRUE, PyStr(<<"mock-answer: ">> \o msgs[Len(msgs)].content))

\* an exception in flight: where it was raised, its class, str(e)
Exc(at, type, msg) == [at |-> at, type |-> type, msg |-> msg]

NoExc == Exc("none", "none", <<>>)

\* classes the provider may raise: asyncio.TimeoutError, an ordinary
\* Exception, and a BaseException that is no Exception
ProviderErrTypes == {"TimeoutError", "RuntimeError", "CancelledError"}

ErrMsgs == {<<"boom">>, <<"rate", " limit">>}

\* faulty variant of IsException: CancelledError deriving from Exception, as
\* it did before Python 3.8
IsExceptionPy37(type) == TRUE

\* isinstance(e, Exception)
IsException(type) == type # "CancelledError"

\* what the caller of the tool gets: a returned dict {"answer": text} or a
\* raised exception of class `type` whose str() is `text`
Returned(answer) == [kind |-> "return", type |-> "dict", text |-> answer]

Raised(type, msg) == [kind |-> "raise", type |-> type, text |-> msg]

NoOutcome == [kind |-> "none", type |-> "none", text |-> <<>>]

\* str(exc) of the pydantic ValidationError for a rejected field
ValidationText(model, field) ==
    <<"1 validation error for ", model, " ", field, " Input should be a valid string">>

\* except ValidationError as exc: raise ValueError(f"Invalid input for <tool>: {exc}")
InvalidInputError(t) ==
    Raised("ValueError", <<"Invalid input for ", t, ": ">> \o ValidationText(InputModel(t), "query"))

\* except asyncio.TimeoutError: raise ValueError("<label> timed out after N seconds")
TimeoutError(t) ==
    Raised("ValueError", <<Label(t), " timed out after ", ToString(MessageSeconds(t)), " seconds">>)

\* faulty variant of FailedError: the underlying message is dropped
FailedErrorNoMsg(t, msg) ==
    Raised("ValueError", <<Label(t), " failed: ">>)

\* except Exception as e: raise ValueError(f"<label> failed: {str(e)}")
FailedError(t, msg) ==
    Raised("ValueError", <<Label(t), " failed: ">> \o msg)

\* faulty variant of Handle: no clause of its own for asyncio.TimeoutError
HandleNoTimeoutClause(t, e) ==
    IF IsException(e.type) THEN FailedError(t, e.msg)
    ELSE Raised(e.type, e.msg)

\* the except clauses of the second try block, applied to an exception e
\* raised inside it; an exception that is no Exception passes through
Handle(t, e) ==
    IF e.type = "TimeoutError" THEN TimeoutError(t)
    ELSE IF IsException(e.type) THEN FailedError(t, e.msg)
    ELSE Raised(e.type, e.msg)

\* the exception result["response"] / the result class raises, or NoExc
WrapExc(t, r) ==
    IF r.shape # "dict"
    THEN Exc("wrap", "TypeError", <<"'", r.shape, "' object is not subscriptable">>)
    ELSE IF ~r.has
    THEN Exc("wrap", "KeyError", <<"'response'">>)
    ELSE IF ~StrField(r.val).ok
    THEN Exc("wrap", "ValidationError", ValidationText(ResultModel(t), "answer"))
    ELSE NoExc

\* faulty variant of Wrap: an empty answer is treated as a failure
WrapRejectEmpty(t, r) ==
    IF WrapExc(t, r) = NoExc /\ StrField(r.val).s # <<>>
    THEN Returned(StrField(r.val).s)
    ELSE Handle(t, Exc("wrap", "ValueError", <<"empty answer">>))

\* faulty variant of Wrap: result.get("response", "") and str() of the value
WrapGetDefault(t, r) ==
    IF r.shape # "dict" THEN Handle(t, WrapExc(t, r))
    ELSE IF ~r.has THEN Returned(<<>>)
    ELSE Returned(Format(r.val))

\* return <Result>(answer=result["response"]).model_dump(), inside the try
Wrap(t, r) ==
    IF WrapExc(t, r) = NoExc
    THEN Returned(StrField(r.val).s)
    ELSE Handle(t, WrapExc(t, r))

(* ------------------------------- state --------------------------------- *)

\* the state of the invocations: per invocation, its position in the
\* coroutine (pc), the tool and its argument (tool, raw), the locals validated,
\* messages and result, the exception raised inside the try block (raised),
\* what the caller gets (outcome), the calls made to get_client and
\* create_completion, the seconds spent suspended and the number of
\* suspensions; running is the coroutine that holds the event loop
TypeOK ==
    /\ pc \in [Invocations -> {"idle", "validate", "get_client", "create_completion",
                               "called", "awaiting", "done"}]
    /\ tool \in [Invocations -> Tools \cup {"none"}]
    /\ \A i \in Invocations :
          /\ raw[i] \in PyValues
          /\ Len(messages[i]) <= 1
          /\ getClientCalls[i] \in 0..1
          /\ createCalls[i] \in 0..1
          /\ result[i].shape \in {"none", "dict", "NoneType"}
          /\ raised[i].at \in {"none", "get_client", "create_completion", "host"}
          /\ outcome[i].kind \in {"none", "return", "raise"}
          /\ elapsed[i] \in 0..MaxElapsed
          /\ suspensions[i] \in 0..1
          /\ Len(validated[i]) >= 0
    /\ running \in Invocations \cup {"none"}

Init ==
    /\ pc = [i \in Invocations |-> "idle"]
    /\ tool = [i \in Invocations |-> "none"]
    /\ raw = [i \in Invocations |-> PyNone]
    /\ validated = [i \in Invocations |-> <<>>]
    /\ messages = [i \in Invocations |-> <<>>]
    /\ getClientCalls = [i \in Invocations |-> 0]
    /\ createCalls = [i \in Invocations |-> 0]
    /\ result = [i \in Invocations |-> NoResult]
    /\ raised = [i \in Invocations |-> NoExc]
    /\ outcome = [i \in Invocations |-> NoOutcome]
    /\ elapsed = [i \in Invocations |-> 0]
    /\ suspensions = [i \in Invocations |-> 0]
    /\ running = "none"

\* the invocation ends: its outcome is set and it leaves the event loop
Finish(i, o) ==
    /\ outcome' = [outcome EXCEPT ![i] = o]
    /\ pc' = [pc EXCEPT ![i] = "done"]
    /\ running' = "none"

\* the host calls tool t with argument q; the coroutine starts running
Call(i, t, q) ==
    /\ pc[i] = "idle"
    /\ running = "none"
    /\ pc' = [pc EXCEPT ![i] = "validate"]
    /\ tool' = [tool EXCEPT ![i] = t]
    /\ raw' = [raw EXCEPT ![i] = q]
    /\ running' = i
    /\ UNCHANGED <<validated, messages, getClientCalls, createCalls, result, raised,
                   outcome, elapsed, suspensions>>

\* first try block: validated = <Input>(query=...) or the invalid-input error
Validate(i) ==
    /\ pc[i] = "validate"
    /\ running = i
    /\ LET v == StrField(ValidationArg(tool[i], raw[i]))
       IN  IF v.ok
           THEN /\ validated' = [validated EXCEPT ![i] = v.s]
                /\ pc' = [pc EXCEPT ![i] = "get_client"]
                /\ UNCHANGED <<outcome, running>>
           ELSE /\ Finish(i, InvalidInputError(tool[i]))
                /\ UNCHANGED validated
    /\ UNCHANGED <<tool, raw, messages, getClientCalls, createCalls, result, raised,
                   elapsed, suspensions>>

\* faulty variant of GetClientReturns: get_client is awaited and suspends
GetClientReturnsAwaited(i) ==
    /\ pc[i] = "get_client"
    /\ running = i
    /\ getClientCalls' = [getClientCalls EXCEPT ![i] = @ + 1]
    /\ messages' = [messages EXCEPT ![i] = Messages(tool[i], validated[i])]
    /\ pc' = [pc EXCEPT ![i] = "create_completion"]
    /\ suspensions' = [suspensions EXCEPT ![i] = @ + 1]
    /\ UNCHANGED <<tool, raw, validated, createCalls, result, raised, outcome,
                   elapsed, running>>

\* faulty variant of GetClientReturns: messages is a module-level list that
\* every invocation shares
GetClientReturnsShared(i) ==
    /\ pc[i] = "get_client"
    /\ running = i
    /\ getClientCalls' = [getClientCalls EXCEPT ![i] = @ + 1]
    /\ messages' = [j \in Invocations |-> Messages(tool[i], validated[i])]
    /\ pc' = [pc EXCEPT ![i] = "create_completion"]
    /\ UNCHANGED <<tool, raw, validated, createCalls, result, raised, outcome,
                   elapsed, suspensions, running>>

\* client = get_client(...) returns; messages = [{"role": "user", ...}]
GetClientReturns(i) ==
    /\ pc[i] = "get_client"
    /\ running = i
    /\ getClientCalls' = [getClientCalls EXCEPT ![i] = @ + 1]
    /\ messages' = [messages EXCEPT ![i] = Messages(tool[i], validated[i])]
    /\ pc' = [pc EXCEPT ![i] = "create_completion"]
    /\ UNCHANGED <<tool, raw, validated, createCalls, result, raised, outcome,
                   elapsed, suspensions, running>>

\* faulty variant of GetClientRaises: the error is swallowed and the tool
\* goes on to create_completion
GetClientRaisesContinues(i, type, msg) ==
    /\ pc[i] = "get_client"
    /\ running = i
    /\ getClientCalls' = [getClientCalls EXCEPT ![i] = @ + 1]
    /\ raised' = [raised EXCEPT ![i] = Exc("get_client", type, msg)]
    /\ messages' = [messages EXCEPT ![i] = Messages(tool[i], validated[i])]
    /\ pc' = [pc EXCEPT ![i] = "create_completion"]
    /\ UNCHANGED <<tool, raw, validated, createCalls, result, outcome, elapsed,
                   suspensions, running>>

\* get_client(...) raises
GetClientRaises(i, type, msg) ==
    /\ pc[i] = "get_client"
    /\ running = i
    /\ getClientCalls' = [getClientCalls EXCEPT ![i] = @ + 1]
    /\ raised' = [raised EXCEPT ![i] = Exc("get_client", type, msg)]
    /\ Finish(i, Handle(tool[i], Exc("get_client", type, msg)))
    /\ UNCHANGED <<tool, raw, validated, messages, createCalls, result, elapsed,
                   suspensions>>

\* client.create_completion(messages=messages) is called
CreateCompletion(i) ==
    /\ pc[i] = "create_completion"
    /\ running = i
    /\ createCalls' = [createCalls EXCEPT ![i] = @ + 1]
    /\ pc' = [pc EXCEPT ![i] = "called"]
    /\ UNCHANGED <<tool, raw, validated, messages, getClientCalls, result, raised,
                   outcome, elapsed, suspensions, running>>

\* the provider call is not yet complete: the await suspends the coroutine
Suspend(i) ==
    /\ pc[i] = "called"
    /\ running = i
    /\ pc' = [pc EXCEPT ![i] = "awaiting"]
    /\ suspensions' = [suspensions EXCEPT ![i] = @ + 1]
    /\ running' = "none"
    /\ UNCHANGED <<tool, raw, validated, messages, getClientCalls, createCalls,
                   result, raised, outcome, elapsed>>

\* the coroutine holds the event loop (the call completed at once) or is
\* resumed by it
AtAwait(i) ==
    \/ pc[i] = "called" /\ running = i
    \/ pc[i] = "awaiting" /\ running = "none"

\* the await yields r; the result is wrapped and returned
ProviderReturns(i, r) ==
    /\ AtAwait(i)
    /\ result' = [result EXCEPT ![i] = r]
    /\ Finish(i, Wrap(tool[i], r))
    /\ UNCHANGED <<tool, raw, validated, messages, getClientCalls, createCalls,
                   raised, elapsed, suspensions>>

\* the provider is the echoing FakeClient
ProviderEchoes(i) == ProviderReturns(i, EchoResult(messages[i]))

\* faulty variant of ProviderRaises: a failed call is tried again
ProviderRaisesRetry(i, type, msg) ==
    /\ AtAwait(i)
    /\ createCalls[i] < 3
    /\ raised' = [raised EXCEPT ![i] = Exc("create_completion", type, msg)]
    /\ pc' = [pc EXCEPT ![i] = "create_completion"]
    /\ running' = i
    /\ UNCHANGED <<tool, raw, validated, messages, getClientCalls, createCalls,
                   result, outcome, elapsed, suspensions>>

\* the await raises
ProviderRaises(i, type, msg) ==
    /\ AtAwait(i)
    /\ raised' = [raised EXCEPT ![i] = Exc("create_completion", type, msg)]
    /\ Finish(i, Handle(tool[i], Exc("create_completion", type, msg)))
    /\ UNCHANGED <<tool, raw, validated, messages, getClientCalls, createCalls,
                   result, elapsed, suspensions>>

\* the host runtime cancels the suspended coroutine: CancelledError is
\* thrown into it at the await
HostCancel(i) ==
    /\ pc[i] = "awaiting"
    /\ running = "none"
    /\ raised' = [raised EXCEPT ![i] = Exc("host", "CancelledError", <<>>)]
    /\ Finish(i, Handle(tool[i], Exc("host", "CancelledError", <<>>)))
    /\ UNCHANGED <<tool, raw, validated, messages, getClientCalls, createCalls,
                   result, elapsed, suspensions>>

\* faulty variant of Tick: the await is wrapped in asyncio.wait_for with the
\* tool's budget, so the wait ends when the budget has elapsed
TickWithTimer ==
    /\ running = "none"
    /\ \E i \in Invocations : pc[i] = "awaiting" /\ elapsed[i] < MaxElapsed
    /\ elapsed' = [i \in Invocations |->
                     IF pc[i] = "awaiting" /\ elapsed[i] < MaxElapsed
                     THEN elapsed[i] + 1 ELSE elapsed[i]]
    /\ pc' = [i \in Invocations |->
                IF pc[i] = "awaiting" /\ elapsed[i] + 1 >= RegisteredTimeout(tool[i])
                THEN "done" ELSE pc[i]]
    /\ outcome' = [i \in Invocations |->
                     IF pc[i] = "awaiting" /\ elapsed[i] + 1 >= RegisteredTimeout(tool[i])
                     THEN TimeoutError(tool[i]) ELSE outcome[i]]
    /\ UNCHANGED <<tool, raw, validated, messages, getClientCalls, createCalls,
                   result, raised, suspensions, running>>

\* one second passes while some invocation waits on the provider
Tick ==
    /\ running = "none"
    /\ \E i \in Invocations : pc[i] = "awaiting" /\ elapsed[i] < MaxElapsed
    /\ elapsed' = [i \in Invocations |->
                     IF pc[i] = "awaiting" /\ elapsed[i] < MaxElapsed
                     THEN elapsed[i] + 1 ELSE elapsed[i]]
    /\ UNCHANGED <<pc, tool, raw, validated, messages, getClientCalls, createCalls,
                   result, raised, outcome, suspensions, running>>

\* the caller has the outcome; the invocation's frame is gone
Return(i) ==
    /\ pc[i] = "done"
    /\ pc' = [pc EXCEPT ![i] = "idle"]
    /\ tool' = [tool EXCEPT ![i] = "none"]
    /\ raw' = [raw EXCEPT ![i] = PyNone]
    /\ validated' = [validated EXCEPT ![i] = <<>>]
    /\ messages' = [messages EXCEPT ![i] = <<>>]
    /\ getClientCalls' = [getClientCalls EXCEPT ![i] = 0]
    /\ createCalls' = [createCalls EXCEPT ![i] = 0]
    /\ result' = [result EXCEPT ![i] = NoResult]
    /\ raised' = [raised EXCEPT ![i] = NoExc]
    /\ outcome' = [outcome EXCEPT ![i] = NoOutcome]
    /\ elapsed' = [elapsed EXCEPT ![i] = 0]
    /\ suspensions' = [suspensions EXCEPT ![i] = 0]
    /\ UNCHANGED running

\* one invocation at a time, with the clock
Next ==
    \/ \E t \in Tools, q \in PyValues : Call("i1", t, q)
    \/ Validate("i1")
    \/ GetClientReturns("i1")
    \/ \E type \in ProviderErrTypes, msg \in ErrMsgs : GetClientRaises("i1", type, msg)
    \/ CreateCompletion("i1")
    \/ Suspend("i1")
    \/ \E r \in RawResults : ProviderReturns("i1", r)
    \/ ProviderEchoes("i1")
    \/ \E type \in ProviderErrTypes, msg \in ErrMsgs : ProviderRaises("i1", type, msg)
    \/ HostCancel("i1")
    \/ Tick
    \/ Return("i1")

Spec == Init /\ [][Next]_vars

\* two invocations interleaved on the one event loop (time left out)
ConcTools == Tools

ConcValues == {PyStr(<<"a">>), PyInt123}

ConcResults ==
    {RawResult("dict", TRUE, PyStr(<<"a">>)), RawResult("dict", TRUE, PyInt123),
     RawResult("dict", FALSE, PyNone), RawResult("NoneType", FALSE, PyNone)}

ConcNext ==
    \E i \in Invocations :
        \/ \E t \in ConcTools, q \in ConcValues : Call(i, t, q)
        \/ Validate(i)
        \/ GetClientReturns(i)
        \/ \E type \in ProviderErrTypes : GetClientRaises(i, type, <<"boom">>)
        \/ CreateCompletion(i)
        \/ Suspend(i)
        \/ \E r \in ConcResults : ProviderReturns(i, r)
        \/ ProviderEchoes(i)
        \/ \E type \in ProviderErrTypes : ProviderRaises(i, type, <<"boom">>)
        \/ HostCancel(i)
        \/ Return(i)

ConcSpec == Init /\ [][ConcNext]_vars

(* ------------------------ the caller's view ---------------------------- *)

\* the kind of outcome a caller can tell from the exception class and the
\* shape of its message
Kind(o) ==
    IF o.kind = "none" THEN "none"
    ELSE IF o.kind = "return" THEN "Success"
    ELSE IF o.type # "ValueError" THEN o.type
    ELSE IF o.text[1] = "Invalid input for " THEN "InvalidInput"
    ELSE IF o.text[2] = " timed out after " THEN "Timeout"
    ELSE IF o.text[2] = " failed: " THEN "ProviderError"
    ELSE "Unknown"

\* m occurs in text as a substring
Contains(text, m) ==
    \E k \in 1..(Len(text) - Len(m) + 1) : SubSeq(text, k, k + Len(m) - 1) = m

\* validation is over for invocation i
PastValidation(i) == pc[i] \notin {"idle", "validate"}

\* the provider's raw result lacks the expected text
Malformed(r) == r.shape # "dict" \/ ~r.has \/ r.val.kind # "str"

(* ------------------------------ claims --------------------------------- *)

\* C1 (as stated): for every tool, the call with the integer 123 ends with
\* the invalid-input error and neither get_client nor create_completion is
\* invoked.
C1_NonTextRejected ==
    \A i \in Invocations :
        raw[i] = PyInt123 /\ PastValidation(i) =>
            /\ pc[i] = "done"
            /\ outcome[i] = InvalidInputError(tool[i])
            /\ getClientCalls[i] = 0
            /\ createCalls[i] = 0

C3_TextResponseReturned ==
    \A i \in Invocations :
        pc[i] = "done" /\ result[i].shape = "dict" /\ result[i].has
                       /\ result[i].val.kind = "str" =>
            outcome[i] = Returned(result[i].val.s)

C3_Witness ==
    \E i \in Invocations :
        /\ pc[i] = "done"
        /\ result[i] = RawResult("dict", TRUE, PyStr(<<>>))
        /\ outcome[i] = Returned(<<>>)

\* C4 (as stated): no invocation with a text query is still waiting on the
\* provider after its tool's time budget, and one whose provider call
\* outlasted the budget ends with the timeout error carrying the budget.
C4_BudgetEnforced ==
    \A i \in Invocations :
        raw[i].kind = "str" /\ raw[i].s # <<>> =>
            /\ pc[i] = "awaiting" => elapsed[i] <= RegisteredTimeout(tool[i])
            /\ pc[i] = "done" /\ elapsed[i] > RegisteredTimeout(tool[i]) =>
                  outcome[i] = TimeoutError(tool[i])

\* C5 (as stated): whatever the class of the error create_completion raises
\* with message M, the invocation fails with "<label> failed: M".
C5_AnyErrorIsProviderError ==
    \A i \in Invocations :
        pc[i] = "done" /\ raised[i].at = "create_completion" =>
            /\ outcome[i] = Raised("ValueError", <<Label(tool[i]), " failed: ">> \o raised[i].msg)
            /\ Contains(outcome[i].text, raised[i].msg)

\* C5 (amended): if create_completion raises an Exception other than
\* asyncio.TimeoutError with message M, the invocation fails with
\* "<label> failed: M", which contains M; an asyncio.TimeoutError is reported
\* as the timeout error, and an error that is no Exception passes through.
C5_ExceptionIsProviderError ==
    \A i \in Invocations :
        pc[i] = "done" /\ raised[i].at = "create_completion" =>
            /\ raised[i].type = "RuntimeError" =>
                  /\ outcome[i] = Raised("ValueError",
                                         <<Label(tool[i]), " failed: ">> \o raised[i].msg)
                  /\ Contains(outcome[i].text, raised[i].msg)
            /\ raised[i].type = "TimeoutError" => Kind(outcome[i]) = "Timeout"
            /\ raised[i].type = "CancelledError" =>
                  outcome[i] = Raised("CancelledError", raised[i].msg)

C5_Witness ==
    \E i \in Invocations :
        /\ pc[i] = "done"
        /\ raised[i] = Exc("create_completion", "RuntimeError", <<"rate", " limit">>)
        /\ Kind(outcome[i]) = "ProviderError"

FailurePoint(i) ==
    IF raised[i].at = "host" THEN "cancelled"
    ELSE IF raised[i].at # "none"
    THEN (IF raised[i].type = "TimeoutError" THEN "timeout" ELSE "provider_raised")
    ELSE IF result[i] # NoResult THEN "malformed"
    ELSE "invalid_input"

\* invocation i failed at one of the four failure points
Failed(i) ==
    pc[i] = "done" /\ outcome[i].kind = "raise" /\ FailurePoint(i) # "cancelled"

\* the failure points as the code tells them apart
FailureClass(i) ==
    IF FailurePoint(i) \in {"provider_raised", "malformed"} THEN "failed"
    ELSE FailurePoint(i)

C8_AtMostOneCompletion ==
    \A i \in Invocations :
        /\ createCalls[i] <= 1
        /\ getClientCalls[i] <= 1
        /\ raised[i] # NoExc => pc[i] = "done"
        /\ pc[i] = "done" /\ FailurePoint(i) = "invalid_input" => createCalls[i] = 0

C8_Witness ==
    \E i \in Invocations :
        /\ pc[i] = "done"
        /\ raised[i] = Exc("create_completion", "RuntimeError", <<"boom">>)
        /\ outcome[i].kind = "raise"
        /\ createCalls[i] = 1

\* C9 (as stated): perplexity_deep_research on a non-empty question q, against
\* the echoing stub, returns {"answer": "mock-answer: " + q}.
C9_DeepResearchEcho ==
    \A i \in Invocations :
        pc[i] = "done" /\ tool[i] = "perplexity_deep_research"
                       /\ raw[i].kind = "str" /\ raw[i].s # <<>>
                       /\ Len(messages[i]) > 0 /\ result[i] = EchoResult(messages[i]) =>
            outcome[i] = Returned(<<"mock-answer: ">> \o raw[i].s)

\* C10: perplexity_search on a text query q sends exactly one message, of
\* role "user" and content q, and against the echoing stub returns
\* {"answer": "mock-answer: " + q}.
C10_SearchSendsQuery ==
    \A i \in Invocations :
        tool[i] = "perplexity_search" /\ raw[i].kind = "str" /\ createCalls[i] >= 1 =>
            /\ messages[i] = <<[role |-> "user", content |-> raw[i].s]>>
            /\ pc[i] = "done" /\ result[i] = EchoResult(messages[i]) =>
                  outcome[i] = Returned(<<"mock-answer: ">> \o raw[i].s)

C10_Witness ==
    \E i \in Invocations :
        /\ tool[i] = "perplexity_search"
        /\ raw[i] = PyStr(<<"a">>)
        /\ pc[i] = "done"
        /\ createCalls[i] = 1
        /\ outcome[i] = Returned(<<"mock-answer: ", "a">>)

\* everything invocation i holds: its arguments, locals, counters and outcome
Frame(i) ==
    <<pc[i], tool[i], raw[i], validated[i], messages[i], getClientCalls[i],
      createCalls[i], result[i], raised[i], outcome[i], suspensions[i]>>

\* what the provider did for invocation i
ProviderDid(i) == <<result[i], raised[i]>>

\* C11: invocations do not interfere.  A step of one invocation changes
\* nothing another invocation holds, whether that one is idle, suspended on
\* the provider or finished; the message sent is built from the invocation's
\* own input; and two finished invocations of the same tool with the same
\* input and the same provider result have equal outcomes.
C11_NoInterference ==
    [][/\ \A i, j \in Invocations :
              i # j => Frame(i)' = Frame(i) \/ Frame(j)' = Frame(j)
       /\ \A i \in Invocations :
              createCalls[i]' >= 1 =>
                  messages[i]' = <<[role |-> "user",
                                    content |-> Prompt(tool[i]', validated[i]')]>>
       /\ \A i, j \in Invocations :
              /\ pc[i]' = "done" /\ pc[j]' = "done"
              /\ tool[i]' = tool[j]' /\ raw[i]' = raw[j]'
              /\ ProviderDid(i)' = ProviderDid(j)'
              => outcome[i]' = outcome[j]']_vars

C11_Witness ==
    /\ pc["i1"] = "done" /\ pc["i2"] = "done"
    /\ tool["i1"] = "perplexity_search" /\ tool["i2"] = "perplexity_search"
    /\ raw["i1"] = PyStr(<<"a">>) /\ raw["i2"] = PyStr(<<"a">>)
    /\ suspensions["i1"] = 1 /\ suspensions["i2"] = 1
    /\ result["i1"] = EchoResult(messages["i1"])
    /\ result["i2"] = EchoResult(messages["i2"])
    /\ outcome["i1"] = Returned(<<"mock-answer: ", "a">>)
    /\ outcome["i2"] = outcome["i1"]

\* C12 (as stated): every invocation that completes has suspended exactly
\* once.
C12_ExactlyOneSuspension ==
    \A i \in Invocations : pc[i] = "done" => suspensions[i] = 1

\* C12 (amended): an invocation suspends at most once, and only at the wait
\* on the provider call: validation, prompt construction, get_client and the
\* wrapping run while the coroutine holds the event loop.  An invocation that
\* fails validation, whose get_client raises, or whose provider call
\* completes without yielding, completes with no suspension.
C12_AtMostOneSuspension ==
    \A i \in Invocations :
        /\ suspensions[i] <= 1
        /\ suspensions[i] = 1 => createCalls[i] = 1
        /\ pc[i] \in {"validate", "get_client", "create_completion", "called"} =>
              suspensions[i] = 0 /\ running = i
        /\ pc[i] = "awaiting" => suspensions[i] = 1 /\ running # i
        /\ pc[i] = "done" /\ createCalls[i] = 0 => suspensions[i] = 0

C12_Witness ==
    \E i \in Invocations :
        /\ pc[i] = "done"
        /\ outcome[i].kind = "return"
        /\ suspensions[i] = 1

\* C13: the seconds named in a tool's timeout error are the timeout
\* registered for that tool, and the registered budgets are ordered
\* quick_fact < search < search_with_citations = current_events < deep_research.
C13_MessageMatchesRegistration ==
    /\ \A i \in Invocations :
          pc[i] = "done" /\ Kind(outcome[i]) = "Timeout" =>
              outcome[i].text = <<Label(tool[i]), " timed out after ",
                                  ToString(RegisteredTimeout(tool[i])), " seconds">>
    /\ \A t \in Tools : MessageSeconds(t) = RegisteredTimeout(t)
    /\ RegisteredTimeout("perplexity_quick_fact") < RegisteredTimeout("perplexity_search")
    /\ RegisteredTimeout("perplexity_search")
          < RegisteredTimeout("perplexity_search_with_citations")
    /\ RegisteredTimeout("perplexity_search_with_citations")
          = RegisteredTimeout("perplexity_current_events")
    /\ RegisteredTimeout("perplexity_current_events")
          < RegisteredTimeout("perplexity_deep_research")

C13_Witness ==
    \E i \in Invocations :
        /\ pc[i] = "done"
        /\ tool[i] = "perplexity_search"
        /\ outcome[i] = Raised("ValueError",
                               <<"Perplexity search", " timed out after ", "30", " seconds">>)

C15_GetClientErrorIsFailed ==
    \A i \in Invocations :
        /\ getClientCalls[i] >= 1 => StrField(ValidationArg(tool[i], raw[i])).ok
        /\ createCalls[i] >= 1 => getClientCalls[i] = 1 /\ raised[i].at # "get_client"
        /\ raised[i].at = "get_client" =>
              /\ createCalls[i] = 0
              /\ outcome[i] = Raised("ValueError",
                                     <<Label(tool[i]), " failed: ">> \o raised[i].msg)

\* C15 (amended): the steps occur in the order validate, get_client,
\* create_completion, wrap; if get_client raises, create_completion is never
\* invoked, and the failure is surfaced as "<label> failed: <message>" when
\* the error is an Exception other than asyncio.TimeoutError, as the timeout
\* error when it is asyncio.TimeoutError, and unchanged otherwise.
C15_StepOrder ==
    \A i \in Invocations :
        /\ pc[i] = "validate" => getClientCalls[i] = 0 /\ createCalls[i] = 0
        /\ getClientCalls[i] >= 1 =>
              /\ raw[i].kind \in {"str", "bytes"} \/ tool[i] = "perplexity_quick_fact"
              /\ Kind(outcome[i]) # "InvalidInput"
        /\ createCalls[i] >= 1 => getClientCalls[i] = 1 /\ raised[i].at # "get_client"
        /\ outcome[i].kind = "return" => createCalls[i] = 1 /\ result[i] # NoResult
        /\ raised[i].at = "get_client" =>
              /\ pc[i] = "done"
              /\ createCalls[i] = 0
              /\ raised[i].type = "RuntimeError" =>
                    outcome[i] = Raised("ValueError",
                                        <<Label(tool[i]), " failed: ">> \o raised[i].msg)
              /\ raised[i].type = "TimeoutError" => Kind(outcome[i]) = "Timeout"
              /\ raised[i].type = "CancelledError" =>
                    outcome[i] = Raised("CancelledError", raised[i].msg)

C15_Witness ==
    \E i \in Invocations :
        /\ pc[i] = "done"
        /\ raised[i] = Exc("get_client", "RuntimeError", <<"boom">>)
        /\ createCalls[i] = 0
        /\ Kind(outcome[i]) = "ProviderError"

\* C16: when the host runtime cancels an invocation suspended on the provider
\* call, the CancelledError leaves the tool unchanged: it is not turned into
\* the tool's "timed out" or "failed" ValueError, no response is returned and
\* the provider is not called again.
C16_CancellationPropagates ==
    \A i \in Invocations :
        raised[i].at = "host" =>
            /\ pc[i] = "done"
            /\ outcome[i] = Raised("CancelledError", <<>>)
            /\ createCalls[i] = 1
            /\ getClientCalls[i] = 1
            /\ result[i] = NoResult

C16_Witness ==
    \E i \in Invocations :
        /\ pc[i] = "done"
        /\ raised[i].at = "host"
        /\ elapsed[i] >= RegisteredTimeout(tool[i])
        /\ outcome[i].type = "CancelledError"

====
